---- MODULE Spec2Model ----
(***************************************************************************)
(* Market-Breadth-Notifier (run.py): breadth metrics, SMA crossover        *)
(* detection, the breadth history table, the crossover log and the         *)
(* backfill / daily orchestration of main().                               *)
(*                                                                         *)
(* Prices are positive integers (binary floating point is exact on them),  *)
(* a rolling mean is the exact rational sum/window, a value rounded to two *)
(* decimals is an integer number of hundredths.                            *)
(***************************************************************************)
EXTENDS Integers, Sequences, FiniteSets, TLC

VARIABLES
    pc,             \* position of the program / of the function under check
    price_data,     \* the panel a pure function is called with
    args,           \* the arguments of the call
    result,         \* what the call returned
    HISTORY_FILE,   \* data/breadth_history.csv
    CROSSOVER_FILE, \* data/crossover_history.json
    options,        \* main: the command line (--backfill, --months)
    now,            \* main: datetime.datetime.now()
    sp500_data,     \* main: the S&P 500 panel fetched
    nasdaq_data,    \* main: the Nasdaq-100 panel fetched
    records,        \* main: the records the backfill loop collected
    metrics,        \* main: sp_metrics and nas_metrics of the daily run
    history_df,     \* main: the local variable history_df
    detected,       \* main: crossovers_sp500 and crossovers_nasdaq
    runs,           \* the runs of main started so far
    previous,       \* the run of main before this one: its mode and its input
    before          \* the two files as they were when the call / the run began

callVars == <<pc, price_data, args, result>>
fileVars == <<HISTORY_FILE, CROSSOVER_FILE>>
mainVars ==
    <<options, now, sp500_data, nasdaq_data, records, metrics, history_df,
      detected, runs, previous>>
vars == <<callVars, fileVars, mainVars, before>>

----------------------------------------------------------------------------
(* Bounds of the model *)

\* the dates of the history table and of the crossover log are 1..MaxDay
MaxDay == 3
\* records in one call of update_history_file
MaxBatch == 2

\* rows a panel has beyond an SMA window / the 200-row threshold
MaxExtra == 1
\* closing prices of the free rows are 1..MaxPrice or missing
MaxPrice == 3

----------------------------------------------------------------------------
(* Values *)

\* a missing close (float NaN): prices themselves are >= 1
NaN == -1

\* Python's None
None == [none |-> TRUE]

\* the 200-row threshold of calculate_metrics_for_date
MIN_HISTORY == 200

\* sma_periods=[50, 100, 200]
SMA_PERIODS == <<50, 100, 200>>

Min(a, b) == IF a < b THEN a ELSE b
Max(a, b) == IF a > b THEN a ELSE b

\* a rolling mean: the rational num/den; den = 0 is NaN
NaNMean == [num |-> 0, den |-> 0]

\* pd.isna on a price / on a mean
isna(x) == x = NaN
isnaMean(m) == m.den = 0

\* (mutant: a close equal to the mean counts as above it)
GtOrEqual(price, mean) ==
    ~isna(price) /\ ~isnaMean(mean) /\ price * mean.den >= mean.num

\* price > mean and price < mean on floats: False when either side is NaN
Gt(price, mean) == ~isna(price) /\ ~isnaMean(mean) /\ price * mean.den > mean.num
Lt(price, mean) == ~isna(price) /\ ~isnaMean(mean) /\ price * mean.den < mean.num

\* round(x * scale / den) to the nearest integer, ties to even (Python round)
RoundDiv(x, den) ==
    LET q == x \div den
        r == x % den
    IN  IF 2 * r < den THEN q
        ELSE IF 2 * r > den THEN q + 1
        ELSE IF q % 2 = 0 THEN q ELSE q + 1

----------------------------------------------------------------------------
(* Price panels: a DataFrame with an ascending date index, ticker columns, *)
(* and one row of closes per date (a tuple aligned with the columns).      *)

Tickers == <<"AAA", "BBB">>

Cols(panel) == 1..Len(panel.columns)

\* len(price_data)
len(panel) == Len(panel.data)

\* pd.DataFrame()
EmptyPanel == [index |-> <<>>, columns |-> <<>>, data |-> <<>>]

\* the stop of the Python slice [:stop] on n rows
SliceStop(n, stop) == IF stop < 0 THEN Max(0, n + stop) ELSE Min(stop, n)

\* price_data.iloc[:date_idx+1] (the rows only)
iloc_upto(panel, date_idx) ==
    SubSeq(panel.data, 1, SliceStop(len(panel), date_idx + 1))

\* the sum of column c over rows lo..hi (halving keeps the recursion shallow)
RECURSIVE SumCol(_, _, _, _)
SumCol(rows, c, lo, hi) ==
    IF lo > hi THEN 0
    ELSE IF lo = hi THEN rows[lo][c]
    ELSE LET mid == (lo + hi) \div 2
         IN  SumCol(rows, c, lo, mid) + SumCol(rows, c, mid + 1, hi)

\* (mutant: min_periods = 1, the mean of the rows there are)
rolling_mean_min_periods_1(rows, c, window) ==
    LET m == Len(rows)
        lo == Max(1, m - window + 1)
    IN  IF m = 0 THEN NaNMean
        ELSE IF \E i \in lo..m : isna(rows[i][c]) THEN NaNMean
        ELSE [num |-> SumCol(rows, c, lo, m), den |-> m - lo + 1]

\* rows.rolling(window=window).mean().iloc[-1][c]: NaN unless the last
\* `window` rows all hold a close (min_periods = window)
rolling_mean_last(rows, c, window) ==
    LET m == Len(rows)
    IN  IF m < window THEN NaNMean
        ELSE IF \E i \in (m - window + 1)..m : isna(rows[i][c]) THEN NaNMean
        ELSE [num |-> SumCol(rows, c, m - window + 1, m), den |-> window]

----------------------------------------------------------------------------
(* The two persisted files and the locals of main, before any run.         *)

\* HISTORY_FILE.exists() is False / the crossover log does not exist
Absent == [kind |-> "absent"]

\* a file that exists and that pd.read_csv / json.load cannot parse
Corrupt == [kind |-> "corrupt"]

\* a history file pd.read_csv reads as a table, whose date column
\* pd.to_datetime cannot convert
Malformed == [kind |-> "malformed"]

\* a local variable that has not been assigned
Unbound == [bound |-> FALSE]

NoFiles ==
    /\ HISTORY_FILE = Absent /\ CROSSOVER_FILE = Absent
    /\ before = [history |-> Absent, crossover |-> Absent]

NoRun ==
    /\ options = None /\ now = None
    /\ sp500_data = EmptyPanel /\ nasdaq_data = EmptyPanel
    /\ records = <<>> /\ metrics = None /\ history_df = Unbound
    /\ detected = None /\ runs = 0 /\ previous = None

----------------------------------------------------------------------------
(* calculate_metrics_for_date *)

\* len(historical_slice) < 200 (mutant: an off-by-one threshold)
InsufficientHistoryOffByOne(historical_slice) ==
    Len(historical_slice) <= MIN_HISTORY

\* (mutant: no check of the length)
InsufficientHistoryNever(historical_slice) == FALSE

InsufficientHistory(historical_slice) == Len(historical_slice) < MIN_HISTORY

\* (mutant: the denominator counts the tickers with a full 200-row history)
TotalOfFullColumns(historical_slice) ==
    LET m == Len(historical_slice)
    IN  Cardinality({c \in 1..Len(historical_slice[m]) :
            ~isnaMean(rolling_mean_last(historical_slice, c, 200))})

\* (mutant: the denominator counts every ticker of the panel)
TotalOfAllColumns(historical_slice) ==
    Len(historical_slice[Len(historical_slice)])

\* total = len(current_prices.dropna())
Total(historical_slice) ==
    LET current_prices == historical_slice[Len(historical_slice)]
    IN  Cardinality({c \in 1..Len(current_prices) : ~isna(current_prices[c])})

\* (current_prices > sma_w).sum()
AboveCount(historical_slice, window) ==
    LET current_prices == historical_slice[Len(historical_slice)]
    IN  Cardinality({c \in 1..Len(current_prices) :
            Gt(current_prices[c], rolling_mean_last(historical_slice, c, window))})

\* round(float(above / total) * 100, 2), in hundredths of a percent
Pct(above, total) == RoundDiv(above * 10000, total)

calculate_metrics_for_date(panel, date_idx) ==
    LET historical_slice == iloc_upto(panel, date_idx)
    IN  IF InsufficientHistory(historical_slice) THEN None
        ELSE LET total == Total(historical_slice)
                 above_50 == AboveCount(historical_slice, 50)
                 above_100 == AboveCount(historical_slice, 100)
                 above_200 == AboveCount(historical_slice, 200)
             IN  IF total = 0 THEN None
                 ELSE [total |-> total,
                       above_50 |-> above_50,
                       above_100 |-> above_100,
                       above_200 |-> above_200,
                       pct_above_50 |-> Pct(above_50, total),
                       pct_above_100 |-> Pct(above_100, total),
                       pct_above_200 |-> Pct(above_200, total)]

----------------------------------------------------------------------------
(* Input panels.  A column is a base price on every row, an optional       *)
(* missing close `hole` rows before the free rows, and free closing prices *)
(* on the last rows.  A base of NaN is a ticker without history.           *)

BasePrice == 2

FreePrices == {NaN} \cup (1..MaxPrice)

ColumnValue(n, pat, i) ==
    LET k == Len(pat.tail)
    IN  IF i > n - k THEN pat.tail[i - (n - k)]
        ELSE IF pat.hole > 0 /\ i = n - k + 1 - pat.hole THEN NaN
        ELSE pat.base

\* the panel with n rows whose columns follow the patterns pats
MkPanel(n, pats) ==
    [index |-> [i \in 1..n |-> i],
     columns |-> SubSeq(Tickers, 1, Len(pats)),
     data |-> [i \in 1..n |-> [c \in 1..Len(pats) |-> ColumnValue(n, pats[c], i)]]]

\* a missing close 50 or 100 rows back: inside the 100- and 200-row
\* windows, or inside the 200-row window only
MetricsPatterns ==
    {[base |-> BasePrice, hole |-> h, tail |-> <<v>>] :
        h \in {0, SMA_PERIODS[1], SMA_PERIODS[2]}, v \in FreePrices}
    \cup {[base |-> NaN, hole |-> 0, tail |-> <<NaN>>]}

MetricsPanels ==
    {MkPanel(MIN_HISTORY + MaxExtra, <<p, q>>) : p, q \in MetricsPatterns}
    \cup {EmptyPanel}

\* the indices a caller passes: a row of the panel, or len - 1 = -1
MetricsIndices(panel) ==
    {-1} \cup {i \in (len(panel) - 1 - 2 * MaxExtra)..(len(panel) - 1) : i >= 0}

InitMetrics ==
    /\ pc = "metrics_call"
    /\ price_data \in MetricsPanels
    /\ \E i \in MetricsIndices(price_data) : args = [date_idx |-> i]
    /\ result = None
    /\ NoFiles /\ NoRun

CallMetrics ==
    /\ pc = "metrics_call"
    /\ result' = calculate_metrics_for_date(price_data, args.date_idx)
    /\ pc' = "metrics_returned"
    /\ UNCHANGED <<price_data, args, fileVars, mainVars, before>>

NextMetrics == CallMetrics

SpecMetrics == InitMetrics /\ [][NextMetrics]_vars

----------------------------------------------------------------------------
(* C1: calculate_metrics_for_date returns no record for lack of history    *)
(* exactly when fewer than 200 rows of the panel lie at or before          *)
(* date_idx: with 199 rows or fewer it always returns None, with 200 or    *)
(* more it returns None only when no ticker has a close on row date_idx.   *)

RowsUpTo(panel, i) == Cardinality({r \in 0..(len(panel) - 1) : r <= i})

NoCloseAt(panel, i) ==
    \A c \in Cols(panel) : isna(panel.data[i + 1][c])

C1_RejectionThreshold ==
    pc = "metrics_returned" =>
        LET rows == RowsUpTo(price_data, args.date_idx)
        IN  /\ rows < 200 => result = None
            /\ rows >= 200 =>
                (result = None <=> NoCloseAt(price_data, args.date_idx))

C1_Witness ==
    /\ pc = "metrics_returned"
    /\ RowsUpTo(price_data, args.date_idx) = 200
    /\ result # None

(* C2: every record returned has above_N <= total and a percentage in      *)
(* [0, 100] (0..10000 hundredths) for each window N.                       *)

C2_PercentageBound ==
    (pc = "metrics_returned" /\ result # None) =>
        /\ result.total >= 1
        /\ \A a \in {result.above_50, result.above_100, result.above_200} :
               0 <= a /\ a <= result.total
        /\ \A p \in {result.pct_above_50, result.pct_above_100,
                     result.pct_above_200} : 0 <= p /\ p <= 10000

\* a ticker with a close but no 200-row SMA is in total, and a record
\* has a ticker above its 50-row SMA
C2_Witness ==
    /\ pc = "metrics_returned"
    /\ result # None
    /\ result.above_50 = result.total
    /\ result.above_200 < result.above_50
    /\ \E c \in Cols(price_data) :
          \E i \in 1..len(price_data) : isna(price_data.data[i][c])

----------------------------------------------------------------------------
(* detect_crossovers *)

\* price_data.iloc[i]: a negative i counts from the end
iloc_row(panel, i) == IF i < 0 THEN panel.data[len(panel) + i + 1] ELSE panel.data[i + 1]

\* .iloc[-1] of an empty slice, or .iloc[i] outside the panel: IndexError
\* (after the guard prev_date_idx >= 0 and curr_date_idx < len(price_data))
IndexError(panel, prev_date_idx, curr_date_idx) ==
    \/ SliceStop(len(panel), curr_date_idx + 1) = 0
    \/ prev_date_idx >= len(panel)
    \/ curr_date_idx < 0 - len(panel)

\* (mutant: a non-strict comparison)
was_below_or_equal(prev_price, prev_sma) ==
    ~isna(prev_price) /\ ~isnaMean(prev_sma)
        /\ prev_price * prev_sma.den <= prev_sma.num

was_below(prev_price, prev_sma) == Lt(prev_price, prev_sma)
was_above(prev_price, prev_sma) == Gt(prev_price, prev_sma)
now_below(curr_price, curr_sma) == Lt(curr_price, curr_sma)
now_above(curr_price, curr_sma) == Gt(curr_price, curr_sma)

\* if pd.isna(prev_price) or ... : continue
SkipTicker(prev_price, curr_price, prev_sma, curr_sma) ==
    isna(prev_price) \/ isna(curr_price) \/ isnaMean(prev_sma) \/ isnaMean(curr_sma)

\* if was_below and now_above
BullishBranch(prev_price, curr_price, prev_sma, curr_sma) ==
    /\ ~SkipTicker(prev_price, curr_price, prev_sma, curr_sma)
    /\ was_below(prev_price, prev_sma) /\ now_above(curr_price, curr_sma)

\* (mutant: the bearish test reads today's state twice)
BearishBranchNowOnly(prev_price, curr_price, prev_sma, curr_sma) ==
    /\ ~SkipTicker(prev_price, curr_price, prev_sma, curr_sma)
    /\ ~(was_below(prev_price, prev_sma) /\ now_above(curr_price, curr_sma))
    /\ now_below(curr_price, curr_sma)

\* elif was_above and now_below
BearishBranch(prev_price, curr_price, prev_sma, curr_sma) ==
    /\ ~SkipTicker(prev_price, curr_price, prev_sma, curr_sma)
    /\ ~(was_below(prev_price, prev_sma) /\ now_above(curr_price, curr_sma))
    /\ was_above(prev_price, prev_sma) /\ now_below(curr_price, curr_sma)

\* {'ticker': ticker, 'close': round(curr_price, 2), 'sma_value': round(curr_sma, 2)}
Event(ticker, curr_price, curr_sma) ==
    [ticker |-> ticker,
     close |-> 100 * curr_price,
     sma_value |-> RoundDiv(100 * curr_sma.num, curr_sma.den)]

\* the bullish and bearish lists of one period after the loop over the
\* first c columns
RECURSIVE TickerLoop(_, _, _, _, _)
TickerLoop(panel, prev_date_idx, curr_date_idx, period, c) ==
    IF c = 0 THEN [bullish |-> <<>>, bearish |-> <<>>]
    ELSE LET done == TickerLoop(panel, prev_date_idx, curr_date_idx, period, c - 1)
             prev_price == iloc_row(panel, prev_date_idx)[c]
             curr_price == iloc_row(panel, curr_date_idx)[c]
             prev_sma == rolling_mean_last(iloc_upto(panel, prev_date_idx), c, period)
             curr_sma == rolling_mean_last(iloc_upto(panel, curr_date_idx), c, period)
             ev == Event(panel.columns[c], curr_price, curr_sma)
         IN  IF BullishBranch(prev_price, curr_price, prev_sma, curr_sma)
                THEN [done EXCEPT !.bullish = Append(@, ev)]
             ELSE IF BearishBranch(prev_price, curr_price, prev_sma, curr_sma)
                THEN [done EXCEPT !.bearish = Append(@, ev)]
             ELSE done

EmptyLists == [bullish |-> <<>>, bearish |-> <<>>]

\* the keys of the dict returned
Periods == {SMA_PERIODS[k] : k \in DOMAIN SMA_PERIODS}

\* (mutant: the two lists are created once, before the loop over the
\* periods, so a period's lists also hold the events of the periods before)
PeriodResultShared(panel, prev_date_idx, curr_date_idx, period) ==
    LET own(p) == IF len(panel) < p THEN EmptyLists
                  ELSE TickerLoop(panel, prev_date_idx, curr_date_idx, p,
                                  Len(panel.columns))
        upto == SelectSeq(SMA_PERIODS, LAMBDA p : p <= period)
        Cat(f, n) == IF n = 1 THEN f[1] ELSE IF n = 2 THEN f[1] \o f[2]
                     ELSE f[1] \o f[2] \o f[3]
    IN  [bullish |-> Cat([k \in DOMAIN upto |-> own(upto[k]).bullish], Len(upto)),
         bearish |-> Cat([k \in DOMAIN upto |-> own(upto[k]).bearish], Len(upto))]

\* results[period]
PeriodResult(panel, prev_date_idx, curr_date_idx, period) ==
    IF len(panel) < period THEN EmptyLists
    ELSE TickerLoop(panel, prev_date_idx, curr_date_idx, period, Len(panel.columns))

\* the dict returned, or the IndexError the first computed period raises
detect_crossovers(panel, prev_date_idx, curr_date_idx) ==
    IF prev_date_idx < 0 \/ curr_date_idx >= len(panel)
        THEN [raised |-> FALSE, value |-> [p \in Periods |-> EmptyLists]]
    ELSE IF /\ \E p \in Periods : len(panel) >= p
            /\ IndexError(panel, prev_date_idx, curr_date_idx)
        THEN [raised |-> TRUE, value |-> [p \in Periods |-> EmptyLists]]
    ELSE [raised |-> FALSE,
          value |-> [p \in Periods |->
                        PeriodResult(panel, prev_date_idx, curr_date_idx, p)]]

\* the previous close that makes the current close BasePrice + 1 equal to
\* its SMA over `period` rows
EqualizingPrice(period) == (BasePrice + 1) * (period - 1) - BasePrice * (period - 2)

CrossTails ==
    {<<p, c>> : p, c \in FreePrices}
    \cup {<<EqualizingPrice(SMA_PERIODS[k]), BasePrice + 1>> : k \in DOMAIN SMA_PERIODS}

\* a missing close right before the two free rows, or 49 rows before them
CrossPatterns ==
    {[base |-> BasePrice, hole |-> h, tail |-> t] :
        h \in {0, 1, SMA_PERIODS[1] - 1}, t \in CrossTails}

\* the second ticker crosses upwards or downwards or has no history
SecondPatterns ==
    {[base |-> BasePrice, hole |-> 0, tail |-> <<BasePrice - 1, BasePrice + 1>>],
     [base |-> BasePrice, hole |-> 0, tail |-> <<BasePrice + 1, BasePrice - 1>>],
     [base |-> NaN, hole |-> 0, tail |-> <<NaN, NaN>>]}

CrossRowCounts ==
    {SMA_PERIODS[k] + e : k \in DOMAIN SMA_PERIODS, e \in (0 - MaxExtra)..MaxExtra}

CrossPanels ==
    {MkPanel(n, <<p, q>>) : n \in CrossRowCounts, p \in CrossPatterns, q \in SecondPatterns}
    \cup {EmptyPanel}

\* the last two rows (what main passes), the same pair reversed, twice the
\* last row, and indices outside the panel
CrossIndices(panel) ==
    LET n == len(panel)
    IN  {<<n - 2, n - 1>>, <<n - 1, n - 2>>, <<n - 1, n - 1>>,
         <<-1, 0>>, <<n - 1, n>>, <<0, -1>>}

InitCross ==
    /\ pc = "cross_call"
    /\ price_data \in CrossPanels
    /\ \E ix \in CrossIndices(price_data) :
          args = [prev_date_idx |-> ix[1], curr_date_idx |-> ix[2]]
    /\ result = None
    /\ NoFiles /\ NoRun

CallCross ==
    /\ pc = "cross_call"
    /\ result' = detect_crossovers(price_data, args.prev_date_idx, args.curr_date_idx)
    /\ pc' = "cross_returned"
    /\ UNCHANGED <<price_data, args, fileVars, mainVars, before>>

NextCross == CallCross

SpecCross == InitCross /\ [][NextCross]_vars

----------------------------------------------------------------------------
(* The relation of a ticker's close on row i (0-based) to its trailing SMA *)
(* over `period` rows, read off the panel itself.                          *)

ValidRow(panel, i) == 0 <= i /\ i < len(panel)

TrailingPresent(panel, c, i, period) ==
    /\ i + 1 >= period
    /\ \A r \in (i + 2 - period)..(i + 1) : panel.data[r][c] # NaN

TrailingSum(panel, c, i, period) == SumCol(panel.data, c, i + 2 - period, i + 1)

StrictlyBelow(panel, c, i, period) ==
    /\ TrailingPresent(panel, c, i, period)
    /\ panel.data[i + 1][c] * period < TrailingSum(panel, c, i, period)

StrictlyAbove(panel, c, i, period) ==
    /\ TrailingPresent(panel, c, i, period)
    /\ panel.data[i + 1][c] * period > TrailingSum(panel, c, i, period)

EqualToSma(panel, c, i, period) ==
    /\ TrailingPresent(panel, c, i, period)
    /\ panel.data[i + 1][c] * period = TrailingSum(panel, c, i, period)

\* how many events of a list are about ticker t
EventCount(events, t) == Cardinality({j \in 1..Len(events) : events[j].ticker = t})

CrossReturned == pc = "cross_returned" /\ ~result.raised

(* C3: in every result of detect_crossovers and for every window, no       *)
(* ticker is in both the bullish and the bearish list, and no ticker is    *)
(* twice in either list.                                                   *)

C3_CrossoverExclusivity ==
    CrossReturned =>
        \A w \in Periods : \A c \in Cols(price_data) :
            LET t == price_data.columns[c]
            IN  EventCount(result.value[w].bullish, t)
                    + EventCount(result.value[w].bearish, t) <= 1

\* one window holds a bullish and a bearish event, and a ticker has an
\* event in two windows
C3_Witness ==
    /\ CrossReturned
    /\ \A w \in {50, 100} :
          Len(result.value[w].bullish) = 1 /\ Len(result.value[w].bearish) = 1

(* C4: a ticker whose close equals its SMA over window w on the previous   *)
(* row or on the current row has no bullish and no bearish event for w,    *)
(* whatever the relation on the other row.                                 *)

C4_EqualityStrictness ==
    (/\ CrossReturned
     /\ ValidRow(price_data, args.prev_date_idx)
     /\ ValidRow(price_data, args.curr_date_idx)) =>
        \A w \in Periods : \A c \in Cols(price_data) :
            (\/ EqualToSma(price_data, c, args.prev_date_idx, w)
             \/ EqualToSma(price_data, c, args.curr_date_idx, w)) =>
                /\ EventCount(result.value[w].bullish, price_data.columns[c]) = 0
                /\ EventCount(result.value[w].bearish, price_data.columns[c]) = 0

\* equal on the current row after a row strictly above, and the same
\* panel gives an event for another ticker
C4_Witness ==
    /\ CrossReturned
    /\ args.prev_date_idx = len(price_data) - 2
    /\ args.curr_date_idx = len(price_data) - 1
    /\ args.prev_date_idx >= 0
    /\ \E w \in Periods : \E c \in Cols(price_data) :
          /\ StrictlyAbove(price_data, c, args.prev_date_idx, w)
          /\ EqualToSma(price_data, c, args.curr_date_idx, w)
          /\ Len(result.value[w].bullish) + Len(result.value[w].bearish) = 1

(* C5: for each window w and each ticker whose two closes and two SMAs are *)
(* present: one bullish and no bearish event iff strictly below at         *)
(* prev_index and strictly above at curr_index; one bearish and no         *)
(* bullish event iff strictly above at prev_index and strictly below at    *)
(* curr_index; no event otherwise.                                         *)

C5_CrossoverClassification ==
    (/\ CrossReturned
     /\ ValidRow(price_data, args.prev_date_idx)
     /\ ValidRow(price_data, args.curr_date_idx)) =>
        \A w \in Periods : \A c \in Cols(price_data) :
            LET nbull == EventCount(result.value[w].bullish, price_data.columns[c])
                nbear == EventCount(result.value[w].bearish, price_data.columns[c])
                up == /\ StrictlyBelow(price_data, c, args.prev_date_idx, w)
                      /\ StrictlyAbove(price_data, c, args.curr_date_idx, w)
                down == /\ StrictlyAbove(price_data, c, args.prev_date_idx, w)
                        /\ StrictlyBelow(price_data, c, args.curr_date_idx, w)
            IN  (/\ TrailingPresent(price_data, c, args.prev_date_idx, w)
                 /\ TrailingPresent(price_data, c, args.curr_date_idx, w)) =>
                    /\ (nbull = 1 /\ nbear = 0) <=> up
                    /\ (nbear = 1 /\ nbull = 0) <=> down
                    /\ (nbull = 0 /\ nbear = 0) <=> (~up /\ ~down)

\* the 201-row panel: below the 50-row SMA on row 200, above on row 201
C5_Witness ==
    /\ CrossReturned
    /\ len(price_data) = 201
    /\ args.prev_date_idx = 199 /\ args.curr_date_idx = 200
    /\ StrictlyBelow(price_data, 1, 199, 50)
    /\ StrictlyAbove(price_data, 1, 200, 50)
    /\ EventCount(result.value[50].bullish, price_data.columns[1]) = 1
    /\ EventCount(result.value[50].bearish, price_data.columns[1]) = 0
    /\ Len(result.value[50].bearish) = 1

----------------------------------------------------------------------------
(* update_history_file: the history table breadth_history.csv.             *)
(* A row is [date, sp500, nasdaq]: the date cell and the seven columns of  *)
(* each universe.  A date cell is the text of a date: the ISO form         *)
(* '%Y-%m-%d' the program writes, or another form pd.to_datetime reads     *)
(* (the same date with a time of day).  to_csv / read_csv keep the integer *)
(* counts and the two-decimal percentages as they are.                     *)

\* d.strftime('%Y-%m-%d')
strftime(day) == [day |-> day, iso |-> TRUE]

\* pd.to_datetime(df['date']).dt.strftime('%Y-%m-%d') on one cell
normalize_date(cell) == strftime(cell.day)

\* the order of two date cells as strings
DateLess(a, b) == a.day < b.day \/ (a.day = b.day /\ a.iso /\ ~b.iso)

\* the rows at the positions I, in their order
Pick(rows, I) ==
    [k \in 1..Cardinality(I) |->
        rows[CHOOSE i \in I : Cardinality({j \in I : j < i}) = k - 1]]

\* pd.read_csv(HISTORY_FILE) with the date column converted, or the empty
\* frame with the fixed columns when the file does not exist
\* (mutant: the table on disk is not read, the new records replace it)
read_history_never(file) == <<>>

read_history(file) ==
    IF file.kind = "absent" THEN <<>>
    ELSE [i \in DOMAIN file.rows |->
            [file.rows[i] EXCEPT !.date = normalize_date(@)]]

\* (mutants: no de-duplication; the first row of a date is kept)
drop_duplicates_none(rows) == rows

drop_duplicates_keep_first(rows) ==
    Pick(rows, {i \in DOMAIN rows :
                    \A j \in 1..(i - 1) : rows[j].date # rows[i].date})

\* .drop_duplicates(subset=['date'], keep='last')
drop_duplicates(rows) ==
    Pick(rows, {i \in DOMAIN rows :
                    \A j \in (i + 1)..Len(rows) : rows[j].date # rows[i].date})

\* (mutant: the table is written in concatenation order)
sort_values_none(rows) == rows

\* .sort_values('date'): ascending by the date string (the dates are
\* unique here; equal dates would keep their order)
sort_values(rows) ==
    LET Before(j, i) == \/ DateLess(rows[j].date, rows[i].date)
                        \/ (rows[j].date = rows[i].date /\ j < i)
        pos(i) == 1 + Cardinality({j \in DOMAIN rows : Before(j, i)})
    IN  [k \in DOMAIN rows |-> rows[CHOOSE i \in DOMAIN rows : pos(i) = k]]

\* the file afterwards, whether the try block ran through, and the frame
\* returned (empty after an exception)
update_history_file(file, new_records) ==
    IF file.kind \in {"corrupt", "malformed"}
        THEN [file |-> file, ok |-> FALSE, df |-> <<>>]
    ELSE LET df == read_history(file)
             combined == sort_values(drop_duplicates(df \o new_records))
         IN  [file |-> [kind |-> "csv", rows |-> combined],
              ok |-> TRUE, df |-> combined]

\* the seven columns of one universe
SampleMetrics(above) ==
    [total |-> 2, above_50 |-> above, above_100 |-> above, above_200 |-> 0,
     pct_above_50 |-> Pct(above, 2), pct_above_100 |-> Pct(above, 2),
     pct_above_200 |-> 0]

StoreDays == 1..MaxDay

\* the records main builds, one for a date
StoreRecords ==
    {[date |-> strftime(d), sp500 |-> SampleMetrics(1), nasdaq |-> SampleMetrics(0)] :
        d \in StoreDays}

\* the batches main can pass: one record per date
StoreBatches ==
    UNION {{b \in [1..n -> StoreRecords] :
                \A i, j \in 1..n : i # j => b[i].date # b[j].date} : n \in 0..MaxBatch}

\* a table the program left behind (one row per date, ascending), or such
\* a table with its date cells rewritten in the other form
StoreTables ==
    {Pick([d \in StoreDays |->
              [date |-> [day |-> d, iso |-> fm],
               sp500 |-> SampleMetrics(ab[d]), nasdaq |-> SampleMetrics(0)]], S) :
        S \in SUBSET StoreDays, fm \in BOOLEAN, ab \in [StoreDays -> {0, 1}]}

StoreFiles == {Absent, Corrupt} \cup {[kind |-> "csv", rows |-> t] : t \in StoreTables}

InitStore ==
    /\ pc = "store_call"
    /\ HISTORY_FILE \in StoreFiles
    /\ CROSSOVER_FILE = Absent
    /\ before = [history |-> HISTORY_FILE, crossover |-> Absent]
    /\ args = [new_records |-> <<>>, repeat |-> FALSE]
    /\ result = None
    /\ price_data = EmptyPanel
    /\ NoRun

\* one call; args.repeat records that the call before it had the same batch
CallUpdateHistory ==
    /\ pc \in {"store_call", "store_returned"}
    /\ \E batch \in StoreBatches :
          LET r == update_history_file(HISTORY_FILE, batch)
          IN  /\ HISTORY_FILE' = r.file
              /\ result' = [ok |-> r.ok, df |-> r.df]
              /\ args' = [new_records |-> batch,
                          repeat |-> (pc = "store_returned"
                                        /\ batch = args.new_records)]
    /\ before' = [history |-> HISTORY_FILE, crossover |-> CROSSOVER_FILE]
    /\ pc' = "store_returned"
    /\ UNCHANGED <<price_data, CROSSOVER_FILE, mainVars>>

NextStore == CallUpdateHistory

SpecStore == InitStore /\ [][NextStore]_vars

\* the rows of a file (none when it is absent or unreadable)
RowsOf(file) == IF file.kind = "csv" THEN file.rows ELSE <<>>

DaysOf(rows) == {rows[i].date.day : i \in DOMAIN rows}

RowsOn(rows, day) == Cardinality({i \in DOMAIN rows : rows[i].date.day = day})

(* C6: merging the same record for a date a second time leaves the         *)
(* persisted table as the first merge left it, with one row for the date.  *)

C6_MergeIdempotence ==
    (pc = "store_returned" /\ args.repeat /\ Len(args.new_records) = 1) =>
        /\ HISTORY_FILE = before.history
        /\ RowsOn(RowsOf(HISTORY_FILE), args.new_records[1].date.day) <= 1

C6_Witness ==
    /\ pc = "store_returned" /\ args.repeat /\ Len(args.new_records) = 1
    /\ result.ok
    /\ Len(RowsOf(HISTORY_FILE)) >= 2
    /\ RowsOn(RowsOf(HISTORY_FILE), args.new_records[1].date.day) = 1

(* C7: after a successful merge the persisted table has at most one row    *)
(* per date and its rows are in ascending date order.                      *)

C7_SortedUnique ==
    (pc = "store_returned" /\ result.ok) =>
        /\ HISTORY_FILE.kind = "csv"
        /\ \A i, j \in DOMAIN HISTORY_FILE.rows :
              i < j => HISTORY_FILE.rows[i].date.day < HISTORY_FILE.rows[j].date.day
        /\ \A i \in DOMAIN HISTORY_FILE.rows : HISTORY_FILE.rows[i].date.iso

\* a batch in descending date order was merged before an existing later row
C7_Witness ==
    /\ pc = "store_returned" /\ result.ok
    /\ Len(args.new_records) = 2
    /\ args.new_records[1].date.day > args.new_records[2].date.day
    /\ Len(RowsOf(before.history)) >= 1
    /\ Len(HISTORY_FILE.rows) = 3

(* C8: upsert by date.  Each new record is the one row of its date in the  *)
(* merged table (the old row of that date is gone); a record of a new date *)
(* is inserted; every old row whose date is not among the new records is   *)
(* still there with its values; and there is no other row.                 *)

C8_UpsertByDate ==
    (pc = "store_returned" /\ result.ok) =>
        LET old == RowsOf(before.history)
            new == RowsOf(HISTORY_FILE)
            batch == args.new_records
        IN  /\ \A i \in DOMAIN batch :
                  /\ RowsOn(new, batch[i].date.day) = 1
                  /\ \E j \in DOMAIN new : new[j] = batch[i]
            /\ \A i \in DOMAIN old :
                  old[i].date.day \notin DaysOf(batch) =>
                      \E j \in DOMAIN new :
                          /\ new[j].date.day = old[i].date.day
                          /\ new[j].sp500 = old[i].sp500
                          /\ new[j].nasdaq = old[i].nasdaq
            /\ DaysOf(new) = DaysOf(old) \cup DaysOf(batch)

\* one record replaced a row with other values, one was inserted, and one
\* old row stayed
C8_Witness ==
    /\ pc = "store_returned" /\ result.ok
    /\ Len(args.new_records) = 2
    /\ \E i \in DOMAIN RowsOf(before.history) :
          /\ RowsOf(before.history)[i].date.day = args.new_records[1].date.day
          /\ RowsOf(before.history)[i].sp500 # args.new_records[1].sp500
    /\ args.new_records[2].date.day \notin DaysOf(RowsOf(before.history))
    /\ Len(RowsOf(before.history)) = 2

----------------------------------------------------------------------------
(* save_crossover_history: the crossover log crossover_history.json, a     *)
(* dict from the date string (here the day) to that day's entry.           *)

\* str(period), and the period a key stands for
str(period) ==
    CASE period = 50 -> "50" [] period = 100 -> "100" [] period = 200 -> "200"

period_of(key) ==
    CASE key = "50" -> 50 [] key = "100" -> 100 [] key = "200" -> 200

\* {str(period): data for period, data in crossovers.items()}
format_crossovers(crossovers) ==
    [key \in {str(p) : p \in DOMAIN crossovers} |-> crossovers[period_of(key)]]

\* history = {}
EmptyLog == [d \in {} |-> None]

\* (mutant: the log is not read back before the write)
load_crossover_history_never(file) == EmptyLog

\* json.load(f) if the file exists, {} if it does not or cannot be parsed
load_crossover_history(file) == IF file.kind = "json" THEN file.log ELSE EmptyLog

\* (mutant: a log that cannot be parsed stops the write)
save_crossover_history_strict(file, crossovers_sp500, crossovers_nasdaq, date_str) ==
    LET history == load_crossover_history(file)
        entry == [sp500 |-> format_crossovers(crossovers_sp500),
                  nasdaq |-> format_crossovers(crossovers_nasdaq)]
    IN  IF file.kind = "corrupt" THEN [file |-> file, returned |-> None]
        ELSE [file |-> [kind |-> "json",
                        log |-> [d \in DOMAIN history \cup {date_str} |->
                                    IF d = date_str THEN entry ELSE history[d]]],
              returned |-> entry]

\* the file afterwards and the entry returned
save_crossover_history(file, crossovers_sp500, crossovers_nasdaq, date_str) ==
    LET history == load_crossover_history(file)
        entry == [sp500 |-> format_crossovers(crossovers_sp500),
                  nasdaq |-> format_crossovers(crossovers_nasdaq)]
        updated == [d \in DOMAIN history \cup {date_str} |->
                        IF d = date_str THEN entry ELSE history[d]]
    IN  [file |-> [kind |-> "json", log |-> updated], returned |-> updated[date_str]]

\* results detect_crossovers returns: no event, or one bullish event for
\* the 50-row window
SampleCrossovers ==
    {[p \in Periods |-> EmptyLists],
     [p \in Periods |->
        IF p = 50
        THEN [bullish |-> <<[ticker |-> Tickers[1], close |-> 300, sma_value |-> 204]>>,
              bearish |-> <<>>]
        ELSE EmptyLists]}

LogDays == 1..MaxDay

\* the logs the program can have left behind
LogFiles ==
    {Absent, Corrupt}
    \cup {[kind |-> "json",
           log |-> [d \in S |-> [sp500 |-> format_crossovers(c[d]),
                                 nasdaq |-> format_crossovers(c[d])]]] :
            S \in SUBSET LogDays, c \in [LogDays -> SampleCrossovers]}

InitLog ==
    /\ pc = "log_call"
    /\ CROSSOVER_FILE \in LogFiles
    /\ HISTORY_FILE = Absent
    /\ before = [history |-> Absent, crossover |-> CROSSOVER_FILE]
    /\ args = None
    /\ result = None
    /\ price_data = EmptyPanel
    /\ NoRun

CallSaveCrossovers ==
    /\ pc \in {"log_call", "log_returned"}
    /\ \E sp \in SampleCrossovers, nas \in SampleCrossovers, d \in LogDays :
          LET r == save_crossover_history(CROSSOVER_FILE, sp, nas, d)
          IN  /\ CROSSOVER_FILE' = r.file
              /\ result' = r.returned
              /\ args' = [crossovers_sp500 |-> sp, crossovers_nasdaq |-> nas,
                          date_str |-> d]
    /\ before' = [history |-> HISTORY_FILE, crossover |-> CROSSOVER_FILE]
    /\ pc' = "log_returned"
    /\ UNCHANGED <<price_data, HISTORY_FILE, mainVars>>

NextLog == CallSaveCrossovers

SpecLog == InitLog /\ [][NextLog]_vars

\* the entries of a log file (none when it is absent or unparseable)
LogOf(file) == IF file.kind = "json" THEN file.log ELSE EmptyLog

\* entry holds exactly the two results given, under the string keys
IsEntryOf(entry, crossovers_sp500, crossovers_nasdaq) ==
    /\ DOMAIN entry = {"sp500", "nasdaq"}
    /\ DOMAIN entry.sp500 = {"50", "100", "200"}
    /\ DOMAIN entry.nasdaq = {"50", "100", "200"}
    /\ \A p \in Periods :
          /\ entry.sp500[str(p)] = crossovers_sp500[p]
          /\ entry.nasdaq[str(p)] = crossovers_nasdaq[p]

(* C9: after save_crossover_history(.., date) the log holds the entry just *)
(* supplied under date, in place of any earlier entry of that date, and    *)
(* under every other date exactly the entry it held before the call.       *)

C9_LogIsolation ==
    pc = "log_returned" =>
        LET old == LogOf(before.crossover)
        IN  /\ CROSSOVER_FILE.kind = "json"
            /\ DOMAIN CROSSOVER_FILE.log = DOMAIN old \cup {args.date_str}
            /\ IsEntryOf(CROSSOVER_FILE.log[args.date_str],
                         args.crossovers_sp500, args.crossovers_nasdaq)
            /\ \A d \in DOMAIN old \ {args.date_str} :
                  CROSSOVER_FILE.log[d] = old[d]

\* the date had another entry, and two other dates have entries that
\* differ from each other
C9_Witness ==
    /\ pc = "log_returned"
    /\ before.crossover.kind = "json"
    /\ args.date_str \in DOMAIN before.crossover.log
    /\ before.crossover.log[args.date_str] # CROSSOVER_FILE.log[args.date_str]
    /\ \E d, e \in DOMAIN CROSSOVER_FILE.log \ {args.date_str} :
          CROSSOVER_FILE.log[d] # CROSSOVER_FILE.log[e]


(* C19: save_crossover_history on a log that is absent or cannot be parsed *)
(* writes a log that holds the entry of the given date and nothing else,   *)
(* and every call, whatever the log was, returns exactly the entry the     *)
(* file then holds under that date.                                        *)

C19_TolerantLoad ==
    pc = "log_returned" =>
        /\ CROSSOVER_FILE.kind = "json"
        /\ args.date_str \in DOMAIN CROSSOVER_FILE.log
        /\ result = CROSSOVER_FILE.log[args.date_str]
        /\ before.crossover.kind \in {"absent", "corrupt"} =>
              /\ DOMAIN CROSSOVER_FILE.log = {args.date_str}
              /\ IsEntryOf(result, args.crossovers_sp500, args.crossovers_nasdaq)

\* the log could not be parsed, and the call stored and returned an entry
\* with an event
C19_Witness ==
    /\ pc = "log_returned"
    /\ before.crossover = Corrupt
    /\ CROSSOVER_FILE.kind = "json"
    /\ result = CROSSOVER_FILE.log[args.date_str]
    /\ Len(result.sp500["50"].bullish) = 1

----------------------------------------------------------------------------
(* main.  Time is counted in days; day % 7 is the weekday, 0 a Monday.  A  *)
(* timestamp is a day and a time of day in ticks of 1/TicksPerDay day; the *)
(* rows of a panel are stamped at midnight.                                *)

\* ticks in a day
TicksPerDay == 4
\* the day the runs happen
Today == 339
\* days in a month of the model calendar
MonthDays == 31
\* runs of main in one behaviour
MaxRuns == 1
\* daily runs in a row in one behaviour
MaxReruns == 2

\* + 50 # Buffer
LOOKBACK_BUFFER == 50
\* lookback_days=400
DAILY_LOOKBACK == 400
\* > 3: continue
MAX_GAP_DAYS == 3

Abs(x) == IF x < 0 THEN -x ELSE x

\* the times of day datetime.datetime.now() is taken at
TimesOfDay == {1, TicksPerDay - 1}

\* --months, and the command lines: --backfill with either window, or no
\* --backfill with the longest (a daily run does not read --months)
Months == {1, 8}
Options ==
    {o \in [backfill : BOOLEAN, months : Months] :
        o.backfill \/ \A m \in Months : m <= o.months}

\* (now - (now - relativedelta(months=months))).days
DaysOfMonths(months) == months * MonthDays

\* freq='B'
IsBusinessDay(day) == day % 7 < 5

\* the days first..last, ascending
DayRange(first, last) == [i \in 1..(last - first + 1) |-> first + i - 1]

\* pd.date_range(start=start_date, end=now, freq='B'): the business days
\* from start_date on, each at the time of day of now
date_range(start_day, end_day) ==
    SelectSeq(DayRange(start_day, end_day), IsBusinessDay)

\* a timestamp in ticks
Ticks(day, tod) == day * TicksPerDay + tod

\* how many rows of the ascending index are at or before the timestamp,
\* by bisection between lo and hi
RECURSIVE searchsorted(_, _, _, _)
searchsorted(index, t, lo, hi) ==
    IF lo = hi THEN lo
    ELSE LET mid == (lo + hi) \div 2
         IN  IF Ticks(index[mid + 1], 0) <= t
             THEN searchsorted(index, t, mid + 1, hi)
             ELSE searchsorted(index, t, lo, mid)

\* index.get_indexer([d], method='nearest')[0]: the position (from 0) of
\* the row nearest to the timestamp, the later row on a tie, -1 when
\* there is no row
get_indexer_nearest(index, t) ==
    LET n == Len(index)
        pad == searchsorted(index, t, 0, n)
        backfill == IF pad > 0 /\ Ticks(index[pad], 0) = t THEN pad ELSE pad + 1
    IN  IF n = 0 THEN -1
        ELSE IF pad = 0 THEN 0
        ELSE IF backfill > n THEN n - 1
        ELSE IF t - Ticks(index[pad], 0) < Ticks(index[backfill], 0) - t
            THEN pad - 1
        ELSE backfill - 1

\* if records: (mutant: the merge is called with an empty list too)
bool_list_always(list) == TRUE

bool_list(list) == list # <<>>

\* if sp_metrics and nas_metrics: (mutant: one of the two is enough)
either_metrics(sp_metrics, nas_metrics) == sp_metrics # None \/ nas_metrics # None

both_metrics(sp_metrics, nas_metrics) == sp_metrics # None /\ nas_metrics # None

\* (sp500_data.index[sp_idx] - d).days: whole days, rounded down
timedelta_days(row_day, t) == (Ticks(row_day, 0) - t) \div TicksPerDay

\* abs((sp500_data.index[sp_idx] - d).days) > 3
GapTooLarge(sp_index, sp_idx, nas_index, nas_idx, t) ==
    Abs(timedelta_days(sp_index[sp_idx + 1], t)) > MAX_GAP_DAYS

\* one pass of the loop body for the business day d: the record appended,
\* or None when the day is skipped (the gap check, a rejected universe, or
\* an exception of the lookup on an empty panel)
backfill_day(sp, nas, day, tod) ==
    IF len(sp) = 0 \/ len(nas) = 0 THEN None
    ELSE LET t == Ticks(day, tod)
             sp_idx == get_indexer_nearest(sp.index, t)
             nas_idx == get_indexer_nearest(nas.index, t)
         IN  IF GapTooLarge(sp.index, sp_idx, nas.index, nas_idx, t) THEN None
             ELSE LET sp_metrics == calculate_metrics_for_date(sp, sp_idx)
                      nas_metrics == calculate_metrics_for_date(nas, nas_idx)
                  IN  IF both_metrics(sp_metrics, nas_metrics)
                      THEN [date |-> strftime(day), sp500 |-> sp_metrics,
                            nasdaq |-> nas_metrics]
                      ELSE None

\* the records list after the loop over dates
backfill_records(sp, nas, dates, tod) ==
    SelectSeq([i \in DOMAIN dates |-> backfill_day(sp, nas, dates[i], tod)],
              LAMBDA r : r # None)

----------------------------------------------------------------------------
(* What the price provider returns: a panel of one ticker with a row for   *)
(* every business day of the lookback, or with the rows of the last        *)
(* `weeks` weeks before this week's Monday missing, or nothing.            *)

\* the longest run of missing rows, in weeks
MaxGapWeeks == 2

\* the Monday of the week of day
MondayOf(day) == day - (day % 7)

\* the rows the provider has: none strictly between the Monday `weeks`
\* weeks back and this week's Monday
ProviderDays(today, lookback_days, weeks) ==
    SelectSeq(DayRange(today - lookback_days, today),
              LAMBDA d : /\ IsBusinessDay(d)
                         /\ ~(MondayOf(today) - 7 * weeks < d /\ d < MondayOf(today)))

\* the closes: flat, a dip on the row before the last, a rise on the last
ProviderClose(n, i) ==
    IF i = n THEN BasePrice + 1 ELSE IF i = n - 1 THEN BasePrice - 1 ELSE BasePrice

ProviderPanel(tickers, days) ==
    [index |-> days, columns |-> tickers,
     data |-> [i \in DOMAIN days |-> [c \in DOMAIN tickers |-> ProviderClose(Len(days), i)]]]

\* the panel whose last row is there without a close
WithoutLastClose(panel) ==
    [panel EXCEPT !.data[len(panel)] = [c \in DOMAIN panel.columns |-> NaN]]

\* fetch_historical_data(tickers, lookback_days) called on today: the
\* panels it can return (nothing, every row, the longest gap, or every
\* row with today's close missing)
fetch_historical_data(tickers, today, lookback_days) ==
    IF tickers = <<>> THEN {EmptyPanel}
    ELSE {EmptyPanel,
          WithoutLastClose(ProviderPanel(tickers, ProviderDays(today, lookback_days, 0)))}
         \cup {ProviderPanel(tickers, ProviderDays(today, lookback_days, w)) :
                 w \in {0, MaxGapWeeks}}

\* get_sp500_tickers() and get_nasdaq100_tickers()
sp500_tickers == <<Tickers[1]>>
nasdaq_tickers == <<Tickers[2]>>

\* pd.read_csv(HISTORY_FILE) where it succeeds: the rows of the table (the
\* cells of a malformed table are not told apart)
read_csv(file) == IF file.kind = "csv" THEN file.rows ELSE <<>>

\* the files a run can find: no history, an unparseable history, or
\* yesterday's row; no log, or yesterday's entry
MainHistoryFiles ==
    {Absent, Corrupt, Malformed,
     [kind |-> "csv",
      rows |-> <<[date |-> strftime(Today - 1), sp500 |-> SampleMetrics(1),
                  nasdaq |-> SampleMetrics(0)]>>]}

MainCrossoverFiles ==
    {Absent,
     [kind |-> "json",
      log |-> [d \in {Today - 1} |->
                  [sp500 |-> format_crossovers([p \in Periods |-> EmptyLists]),
                   nasdaq |-> format_crossovers([p \in Periods |-> EmptyLists])]]]}

InitMain ==
    /\ pc = "idle"
    /\ HISTORY_FILE \in MainHistoryFiles
    /\ CROSSOVER_FILE \in MainCrossoverFiles
    /\ before = [history |-> HISTORY_FILE, crossover |-> CROSSOVER_FILE]
    /\ price_data = EmptyPanel /\ args = None /\ result = None
    /\ NoRun

\* if not HISTORY_FILE.exists() or args.backfill:
RunMode(file, opts) ==
    IF file.kind = "absent" \/ opts.backfill THEN "backfill" ELSE "daily"

\* what a daily run keeps of the daily run before it: its day, the history
\* it found, the panels it was given and how it ended
Summary(mode) ==
    IF runs = 0 \/ mode # "daily" \/ RunMode(before.history, options) # "daily"
    THEN None
    ELSE [day |-> now.day, history |-> before.history,
          sp500_data |-> sp500_data, nasdaq_data |-> nasdaq_data, pc |-> pc]

\* main is started with one of the command lines given, at most `limit`
\* times: the command line is parsed and the mode is chosen (`kept` is
\* what is remembered of the run before)
Start(command_lines, limit, kept) ==
    /\ pc \in {"idle", "done", "raised"}
    /\ runs < limit
    /\ runs' = runs + 1
    /\ options' \in command_lines
    /\ \E tod \in TimesOfDay : now' = [day |-> Today, tod |-> tod]
    /\ before' = [history |-> HISTORY_FILE, crossover |-> CROSSOVER_FILE]
    /\ previous' = kept
    /\ sp500_data' = EmptyPanel /\ nasdaq_data' = EmptyPanel
    /\ records' = <<>> /\ metrics' = None /\ detected' = None
    /\ history_df' = Unbound
    /\ pc' = IF RunMode(HISTORY_FILE, options') = "backfill"
             THEN "backfill_fetch" ELSE "daily_read"
    /\ UNCHANGED <<price_data, args, result, fileVars>>

StartRun == Start(Options, MaxRuns, None)

\* the two bulk downloads of the backfill
BackfillFetch ==
    /\ pc = "backfill_fetch"
    /\ LET days_back == DaysOfMonths(options.months) + LOOKBACK_BUFFER
       IN  /\ sp500_data' \in fetch_historical_data(sp500_tickers, now.day, days_back)
           /\ nasdaq_data' \in fetch_historical_data(nasdaq_tickers, now.day, days_back)
    /\ pc' = "backfill_loop"
    /\ UNCHANGED <<price_data, args, result, fileVars, options, now, records,
                   metrics, history_df, detected, runs, before, previous>>

\* the loop over the business days
BackfillLoop ==
    /\ pc = "backfill_loop"
    /\ LET dates == date_range(now.day - DaysOfMonths(options.months), now.day)
       IN  records' = backfill_records(sp500_data, nasdaq_data, dates, now.tod)
    /\ pc' = "backfill_merge"
    /\ UNCHANGED <<price_data, args, result, fileVars, options, now, sp500_data,
                   nasdaq_data, metrics, history_df, detected, runs, before, previous>>

\* if records: history_df = update_history_file(records)
BackfillMerge ==
    /\ pc = "backfill_merge"
    /\ IF bool_list(records)
       THEN LET r == update_history_file(HISTORY_FILE, records)
            IN  /\ HISTORY_FILE' = r.file
                /\ history_df' = [bound |-> TRUE, rows |-> r.df]
       ELSE UNCHANGED <<HISTORY_FILE, history_df>>
    /\ pc' = "output"
    /\ UNCHANGED <<price_data, args, result, CROSSOVER_FILE, options, now,
                   sp500_data, nasdaq_data, records, metrics, detected, runs,
                   before, previous>>

\* history_df = pd.read_csv(HISTORY_FILE), outside any try
DailyRead ==
    /\ pc = "daily_read"
    /\ IF HISTORY_FILE.kind = "corrupt"
       THEN pc' = "raised" /\ UNCHANGED history_df
       ELSE /\ history_df' = [bound |-> TRUE, rows |-> read_csv(HISTORY_FILE)]
            /\ pc' = "daily_fetch"
    /\ UNCHANGED <<price_data, args, result, fileVars, options, now, sp500_data,
                   nasdaq_data, records, metrics, detected, runs, before, previous>>

\* the two downloads of the daily run, out of the panels the provider can
\* return, and the metrics of the last row
Fetch(sp_panels, nas_panels) ==
    /\ pc = "daily_fetch"
    /\ sp500_data' \in sp_panels
    /\ nasdaq_data' \in nas_panels
    /\ metrics' =
          [sp |-> calculate_metrics_for_date(sp500_data', len(sp500_data') - 1),
           nas |-> calculate_metrics_for_date(nasdaq_data', len(nasdaq_data') - 1)]
    /\ pc' = "daily_crossovers"
    /\ UNCHANGED <<price_data, args, result, fileVars, options, now, records,
                   history_df, detected, runs, before, previous>>

DailyFetch ==
    Fetch(fetch_historical_data(sp500_tickers, now.day, DAILY_LOOKBACK),
          fetch_historical_data(nasdaq_tickers, now.day, DAILY_LOOKBACK))

\* if len(sp500_data) >= 2 and len(nasdaq_data) >= 2: (mutant: one row is
\* enough)
one_row_each(sp, nas) == len(sp) >= 1 /\ len(nas) >= 1

two_rows_each(sp, nas) == len(sp) >= 2 /\ len(nas) >= 2

\* the crossovers between the last two rows, saved to the log
DailyCrossovers ==
    /\ pc = "daily_crossovers"
    /\ IF two_rows_each(sp500_data, nasdaq_data)
       THEN LET sp == detect_crossovers(sp500_data, len(sp500_data) - 2,
                                        len(sp500_data) - 1)
                nas == detect_crossovers(nasdaq_data, len(nasdaq_data) - 2,
                                         len(nasdaq_data) - 1)
            IN  IF sp.raised \/ nas.raised
                THEN pc' = "raised" /\ UNCHANGED <<CROSSOVER_FILE, detected>>
                ELSE /\ detected' = [sp500 |-> sp.value, nasdaq |-> nas.value]
                     /\ CROSSOVER_FILE' =
                           save_crossover_history(CROSSOVER_FILE, sp.value,
                                                  nas.value, now.day).file
                     /\ pc' = "daily_merge"
       ELSE pc' = "daily_merge" /\ UNCHANGED <<CROSSOVER_FILE, detected>>
    /\ UNCHANGED <<price_data, args, result, HISTORY_FILE, options, now,
                   sp500_data, nasdaq_data, records, metrics, history_df, runs,
                   before, previous>>

\* if sp_metrics and nas_metrics: history_df = update_history_file([record])
DailyMerge ==
    /\ pc = "daily_merge"
    /\ IF both_metrics(metrics.sp, metrics.nas)
       THEN LET record == [date |-> strftime(now.day), sp500 |-> metrics.sp,
                           nasdaq |-> metrics.nas]
                r == update_history_file(HISTORY_FILE, <<record>>)
            IN  /\ HISTORY_FILE' = r.file
                /\ history_df' = [bound |-> TRUE, rows |-> r.df]
       ELSE UNCHANGED <<HISTORY_FILE, history_df>>
    /\ pc' = "output"
    /\ UNCHANGED <<price_data, args, result, CROSSOVER_FILE, options, now,
                   sp500_data, nasdaq_data, records, metrics, detected, runs,
                   before, previous>>

\* if not history_df.empty: ... ; print("=== Done ===")
Output ==
    /\ pc = "output"
    /\ pc' = IF history_df.bound THEN "done" ELSE "raised"
    /\ UNCHANGED <<price_data, args, result, fileVars, options, now, sp500_data,
                   nasdaq_data, records, metrics, history_df, detected, runs,
                   before, previous>>

NextMain ==
    \/ StartRun
    \/ BackfillFetch
    \/ BackfillLoop
    \/ BackfillMerge
    \/ DailyRead
    \/ DailyFetch
    \/ DailyCrossovers
    \/ DailyMerge
    \/ Output

SpecMain == InitMain /\ [][NextMain]_vars

\* the calendar days between the business day and the row of the panel
\* nearest to it
NearestRowDistance(panel, day, tod) ==
    Abs(panel.index[get_indexer_nearest(panel.index, Ticks(day, tod)) + 1] - day)

(* C10: when the backfill loop has run over panels that both hold rows,    *)
(* every record it emitted is for a business day whose nearest row is at   *)
(* most 3 calendar days away in the S&P 500 panel and in the Nasdaq-100    *)
(* panel: a day whose nearest row in either panel is farther away has no   *)
(* record.                                                                 *)

C10_BackfillGapSkip ==
    pc = "backfill_merge" =>
        \A i \in DOMAIN records :
            /\ NearestRowDistance(sp500_data, records[i].date.day, now.tod) <= MAX_GAP_DAYS
            /\ NearestRowDistance(nasdaq_data, records[i].date.day, now.tod) <= MAX_GAP_DAYS

----------------------------------------------------------------------------
(* Daily runs in a row: main started again and again on the same day on a  *)
(* history table that can be read, without --backfill.                     *)

\* the tables such runs can find: yesterday's row, or yesterday's row and
\* a row of today from an earlier run
RerunHistoryFiles ==
    {[kind |-> "csv",
      rows |-> SubSeq(<<[date |-> strftime(Today - 1), sp500 |-> SampleMetrics(1),
                         nasdaq |-> SampleMetrics(0)],
                        [date |-> strftime(Today), sp500 |-> SampleMetrics(0),
                         nasdaq |-> SampleMetrics(1)]>>, 1, n)] : n \in 1..2}

InitRerun ==
    /\ pc = "idle"
    /\ HISTORY_FILE \in RerunHistoryFiles
    /\ CROSSOVER_FILE \in MainCrossoverFiles
    /\ before = [history |-> HISTORY_FILE, crossover |-> CROSSOVER_FILE]
    /\ price_data = EmptyPanel /\ args = None /\ result = None
    /\ NoRun

StartDaily == Start({o \in Options : ~o.backfill}, MaxReruns, Summary("daily"))

NextRerun ==
    \/ StartDaily
    \/ DailyRead
    \/ DailyFetch
    \/ DailyCrossovers
    \/ DailyMerge
    \/ Output

SpecRerun == InitRerun /\ [][NextRerun]_vars

\* the rows of a history file for the day / for the other days
RowsForDay(file, day) == SelectSeq(RowsOf(file), LAMBDA r : r.date.day = day)
RowsForOtherDays(file, day) == SelectSeq(RowsOf(file), LAMBDA r : r.date.day # day)

\* a daily run has ended that followed a daily run of the same day on the
\* same two panels
SecondRunEnded ==
    /\ pc = "done"
    /\ previous # None
    /\ previous.pc = "done"
    /\ previous.day = now.day
    /\ previous.sp500_data = sp500_data
    /\ previous.nasdaq_data = nasdaq_data

(* C11 as stated: after two daily runs in a row on the same day and the    *)
(* same panels the history table has exactly one row for that day, and     *)
(* the rows of the other days are those it had before the first run.       *)

C11_RerunLeavesOneRow ==
    SecondRunEnded =>
        /\ Len(RowsForDay(HISTORY_FILE, now.day)) = 1
        /\ RowsForOtherDays(HISTORY_FILE, now.day)
              = RowsForOtherDays(previous.history, now.day)

(* C11, amended: after two daily runs in a row on the same day and the     *)
(* same panels, if the metrics of both universes were computed the history *)
(* table has exactly one row for that day, holding those metrics, and the  *)
(* rows of the other days are those it had before the first run; if the    *)
(* metrics of a universe were rejected the table is as it was before the   *)
(* first run, with no row for the day unless it had one.                   *)

C11_RerunLeavesOneRowIfComputed ==
    SecondRunEnded =>
        IF both_metrics(metrics.sp, metrics.nas)
        THEN /\ RowsForDay(HISTORY_FILE, now.day)
                  = <<[date |-> strftime(now.day), sp500 |-> metrics.sp,
                       nasdaq |-> metrics.nas]>>
             /\ RowsForOtherDays(HISTORY_FILE, now.day)
                  = RowsForOtherDays(previous.history, now.day)
        ELSE HISTORY_FILE = previous.history

\* the second run has ended with both metrics computed, on a table that
\* had a row of another day and no row of the day before the first run
C11_Witness ==
    /\ SecondRunEnded
    /\ both_metrics(metrics.sp, metrics.nas)
    /\ Len(RowsForDay(previous.history, now.day)) = 0
    /\ Len(RowsForOtherDays(HISTORY_FILE, now.day)) = 1
    /\ Len(RowsOf(HISTORY_FILE)) = 2

----------------------------------------------------------------------------
(* Claims about one run of main (SpecMain).                                *)

\* the run under way or ended is a backfill / a daily run
BackfillRun == runs >= 1 /\ RunMode(before.history, options) = "backfill"
DailyRun == runs >= 1 /\ RunMode(before.history, options) = "daily"

\* the backfill loop has run
LoopDone == BackfillRun /\ pc \in {"backfill_merge", "output", "done", "raised"}

\* the daily run has computed sp_metrics and nas_metrics
DailyComputed ==
    DailyRun /\ pc \in {"daily_crossovers", "daily_merge", "output", "done"}

\* the daily run is past its merge
DailyMerged == DailyRun /\ pc \in {"output", "done"}

(* C12: a backfill whose S&P 500 panel or Nasdaq-100 panel came back empty *)
(* emits no record and leaves the history file as it found it: absent if   *)
(* it was absent, with the same content if it existed.                     *)

C12_EmptyPanelBackfill ==
    (LoopDone /\ (len(sp500_data) = 0 \/ len(nasdaq_data) = 0)) =>
        /\ records = <<>>
        /\ HISTORY_FILE = before.history

\* such a backfill has ended, on no history file; its other panel had rows
C12_Witness ==
    /\ LoopDone
    /\ pc \in {"done", "raised"}
    /\ len(sp500_data) > 0 /\ len(nasdaq_data) = 0
    /\ before.history = Absent
    /\ HISTORY_FILE = Absent

(* C13: a run of main that ends with an exception reaching the caller      *)
(* found a history file that cannot be parsed; every other run reaches     *)
(* 'Done'.                                                                 *)

C13_RunsComplete ==
    pc = "raised" => before.history.kind \in {"corrupt", "malformed"}

\* the run tried to load the history file and the load failed: read_csv
\* raised in main, or update_history_file was called on a file it cannot
\* load
LoadFailed ==
    /\ runs >= 1
    /\ before.history.kind \in {"corrupt", "malformed"}
    /\ IF RunMode(before.history, options) = "daily"
       THEN \/ pc = "raised"
            \/ pc \in {"output", "done"} /\ both_metrics(metrics.sp, metrics.nas)
       ELSE pc \in {"output", "done", "raised"} /\ bool_list(records)

(* C14: a run whose load of the history file failed does not reach 'Done': *)
(* the failure ends the run with an exception, in daily mode and in        *)
(* backfill mode.                                                          *)

C14_LoadFailureIsFatal == LoadFailed => pc # "done"

(* C15: a run whose load of the history file failed leaves the history     *)
(* file exactly as it found it and does not write the crossover log.       *)

C15_FailedLoadWritesNothing ==
    LoadFailed =>
        /\ HISTORY_FILE = before.history
        /\ CROSSOVER_FILE = before.crossover

\* the panel has rows and no ticker has a close on its last row
LastRowWithoutClose(panel) ==
    len(panel) > 0 /\ NoCloseAt(panel, len(panel) - 1)

\* the row of the panel the backfill loop matches to the business day
MatchedRow(panel, day) == get_indexer_nearest(panel.index, Ticks(day, now.tod))

(* C16: no record with total = 0 for a universe exists anywhere in a run:  *)
(* not in the history file, not among the records of the backfill loop,    *)
(* not in the metrics of the daily run; a daily panel whose last row has   *)
(* no close gets no metrics, and every backfill record was computed at     *)
(* rows where a ticker has a close.                                        *)

C16_NoEmptyUniverse ==
    /\ \A i \in DOMAIN RowsOf(HISTORY_FILE) :
          /\ RowsOf(HISTORY_FILE)[i].sp500.total >= 1
          /\ RowsOf(HISTORY_FILE)[i].nasdaq.total >= 1
    /\ \A i \in DOMAIN records :
          /\ records[i].sp500.total >= 1
          /\ records[i].nasdaq.total >= 1
    /\ pc = "backfill_merge" =>
          \A i \in DOMAIN records :
             /\ ~NoCloseAt(sp500_data, MatchedRow(sp500_data, records[i].date.day))
             /\ ~NoCloseAt(nasdaq_data, MatchedRow(nasdaq_data, records[i].date.day))
    /\ DailyComputed =>
          /\ LastRowWithoutClose(sp500_data) => metrics.sp = None
          /\ LastRowWithoutClose(nasdaq_data) => metrics.nas = None
          /\ metrics.sp # None => metrics.sp.total >= 1
          /\ metrics.nas # None => metrics.nas.total >= 1

\* a daily run has ended whose S&P 500 panel has 200 rows and more and no
\* close on the last: no metrics for it, nothing merged
C16_Witness ==
    /\ DailyMerged /\ pc = "done"
    /\ len(sp500_data) >= MIN_HISTORY
    /\ LastRowWithoutClose(sp500_data)
    /\ metrics.sp = None /\ metrics.nas # None
    /\ HISTORY_FILE = before.history

\* the columns of one universe in a record
MetricsColumns ==
    {"total", "above_50", "above_100", "above_200",
     "pct_above_50", "pct_above_100", "pct_above_200"}

\* the record has its date and the seven columns of both universes
FullRecord(r) ==
    /\ DOMAIN r = {"date", "sp500", "nasdaq"}
    /\ DOMAIN r.sp500 = MetricsColumns
    /\ DOMAIN r.nasdaq = MetricsColumns

\* calculate_metrics_for_date has a record for row i of the panel: 200
\* rows up to it, and a close on it
Computable(panel, i) == i + 1 >= MIN_HISTORY /\ ~NoCloseAt(panel, i)

(* C17: a record exists for a date only if the metrics of both universes   *)
(* were computed.  Every record of the backfill loop is for a day whose    *)
(* matched rows, in both panels, have 200 rows up to them and a close; a   *)
(* daily run in which the metrics of either universe are rejected merges   *)
(* nothing; and every row of the history file and every record has all     *)
(* the columns of both universes.                                          *)

C17_BothUniversesAgree ==
    /\ \A i \in DOMAIN RowsOf(HISTORY_FILE) : FullRecord(RowsOf(HISTORY_FILE)[i])
    /\ \A i \in DOMAIN records : FullRecord(records[i])
    /\ pc = "backfill_merge" =>
          \A i \in DOMAIN records :
             LET day == records[i].date.day
             IN  /\ Computable(sp500_data, MatchedRow(sp500_data, day))
                 /\ Computable(nasdaq_data, MatchedRow(nasdaq_data, day))
    /\ (DailyMerged /\ (metrics.sp = None \/ metrics.nas = None)) =>
          HISTORY_FILE = before.history

\* a daily run has ended on a table it could read, with metrics for the
\* S&P 500 and none for a Nasdaq-100 panel of 200 rows and more: nothing
\* was merged
C17_Witness ==
    /\ DailyMerged /\ pc = "done"
    /\ before.history.kind = "csv"
    /\ metrics.sp # None /\ metrics.nas = None
    /\ len(nasdaq_data) >= MIN_HISTORY
    /\ HISTORY_FILE = before.history

(* C22: the history table only grows by date.  In every state of a run,   *)
(* daily or backfill, whatever the provider returned and whichever records *)
(* were rejected, every date the table held when the run started is still  *)
(* in it, and a file that could not be parsed is as the run found it.      *)

C22_AppendOnlyByDate ==
    /\ DaysOf(RowsOf(before.history)) \subseteq DaysOf(RowsOf(HISTORY_FILE))
    /\ before.history.kind \in {"corrupt", "malformed"} =>
            HISTORY_FILE = before.history

\* a backfill over a table with yesterday's row has merged a record for
\* yesterday and records for other days
C22_Witness ==
    /\ BackfillRun /\ pc = "done"
    /\ RowsOn(RowsOf(before.history), Today - 1) = 1
    /\ \E i \in DOMAIN records : records[i].date.day = Today - 1
    /\ Len(RowsOf(HISTORY_FILE)) > 1
    /\ RowsOn(RowsOf(HISTORY_FILE), Today - 1) = 1

\* the business days the backfill loop runs over
BackfillDates == date_range(now.day - DaysOfMonths(options.months), now.day)

\* the records of the loop dated the day
RecordsOn(day) == Cardinality({i \in DOMAIN records : records[i].date.day = day})

(* C23: when the backfill loop is over, every business day of the window   *)
(* whose nearest row is at most 3 calendar days away in both panels, and   *)
(* whose matched rows have 200 rows up to them and a close in both panels, *)
(* has exactly one record, dated that day, at whatever time of day the run *)
(* was started and whether the matched row is before or after the day.     *)

C23_OneRecordPerCoveredDay ==
    (LoopDone /\ len(sp500_data) > 0 /\ len(nasdaq_data) > 0) =>
        \A k \in DOMAIN BackfillDates :
            LET d == BackfillDates[k]
            IN  (/\ NearestRowDistance(sp500_data, d, now.tod) <= MAX_GAP_DAYS
                 /\ NearestRowDistance(nasdaq_data, d, now.tod) <= MAX_GAP_DAYS
                 /\ Computable(sp500_data, MatchedRow(sp500_data, d))
                 /\ Computable(nasdaq_data, MatchedRow(nasdaq_data, d)))
                    => RecordsOn(d) = 1

\* the business days at the head of the window whose matched row cannot
\* have 199 rows before it: the panel starts LOOKBACK_BUFFER calendar days
\* before the window, so the k-th day is matched at index k + 50 at most
HeadDays == MIN_HISTORY - 1 - LOOKBACK_BUFFER - 1

(* C25: a record of the backfill loop is for a day whose matched row has   *)
(* index 199 or more in both panels; the first business days of the window *)
(* never have a record, the panels starting only 50 calendar days before   *)
(* it; and a backfill with fewer than 200 rows in either panel emits no    *)
(* record, does not call update_history_file and leaves the history file   *)
(* as it found it.                                                         *)

C25_BackfillNeedsLookback ==
    LoopDone =>
        /\ \A i \in DOMAIN records :
              /\ MatchedRow(sp500_data, records[i].date.day) >= MIN_HISTORY - 1
              /\ MatchedRow(nasdaq_data, records[i].date.day) >= MIN_HISTORY - 1
        /\ LET dates == BackfillDates
               head == Min(HeadDays, Len(dates))
           IN  \A i \in DOMAIN records :
                   head > 0 => records[i].date.day > dates[head]
        /\ (len(sp500_data) < MIN_HISTORY \/ len(nasdaq_data) < MIN_HISTORY) =>
              /\ records = <<>>
              /\ history_df = Unbound
              /\ HISTORY_FILE = before.history

\* a backfill of 8 months is done: it has records, one of them matched at
\* index 199, and none for the first day of the window
C25_Witness ==
    /\ BackfillRun /\ pc = "done"
    /\ records # <<>>
    /\ \E i \in DOMAIN records :
          MatchedRow(sp500_data, records[i].date.day) = MIN_HISTORY - 1
    /\ RecordsOn(BackfillDates[1]) = 0
    /\ Len(BackfillDates) > HeadDays

----------------------------------------------------------------------------
(* One daily run when the provider may hold only the last few sessions:    *)
(* besides the panels above, a panel of the last k rows.                   *)

\* the most rows of a panel of the last sessions
MaxRecent == 3

\* the last k rows of what the provider has
RecentPanels(tickers, today) ==
    {LET days == ProviderDays(today, DAILY_LOOKBACK, 0)
     IN  ProviderPanel(tickers, SubSeq(days, Len(days) - k + 1, Len(days))) :
        k \in 1..MaxRecent}

InitDaily ==
    /\ InitMain
    /\ HISTORY_FILE # Absent

StartOnce == Start({o \in Options : ~o.backfill}, MaxRuns, None)

DailyFetchRecent ==
    Fetch(fetch_historical_data(sp500_tickers, now.day, DAILY_LOOKBACK)
              \cup RecentPanels(sp500_tickers, now.day),
          fetch_historical_data(nasdaq_tickers, now.day, DAILY_LOOKBACK)
              \cup RecentPanels(nasdaq_tickers, now.day))

NextDaily ==
    \/ StartOnce
    \/ DailyRead
    \/ DailyFetchRecent
    \/ DailyCrossovers
    \/ DailyMerge
    \/ Output

SpecDaily == InitDaily /\ [][NextDaily]_vars

\* the log holds an entry under the day
LogHas(file, day) == file.kind = "json" /\ day \in DOMAIN file.log

\* the crossover step of the daily run is over
CrossoversDone == DailyRun /\ pc \in {"daily_merge", "output", "done", "raised"}

(* C21: in a daily run the crossovers are detected and the log entry of    *)
(* the run date is written if and only if both panels have at least 2      *)
(* rows, whether or not the metrics of a universe were rejected; with      *)
(* fewer rows in a panel the log stays as the run found it; and when the   *)
(* entry is written the history file is still as the run found it: the     *)
(* merge comes after.                                                      *)

C21_CrossoversBeforeMerge ==
    /\ (DailyRun /\ pc \in {"daily_read", "daily_fetch", "daily_crossovers"}) =>
            (CROSSOVER_FILE = before.crossover /\ HISTORY_FILE = before.history)
    /\ CrossoversDone =>
            IF len(sp500_data) >= 2 /\ len(nasdaq_data) >= 2
            THEN /\ detected # None
                 /\ LogHas(CROSSOVER_FILE, now.day)
                 /\ IsEntryOf(CROSSOVER_FILE.log[now.day], detected.sp500,
                              detected.nasdaq)
            ELSE /\ detected = None
                 /\ CROSSOVER_FILE = before.crossover
    /\ (DailyRun /\ pc = "daily_merge") => HISTORY_FILE = before.history

\* a run on two panels of 2 rows: the entry of the day is in the log, the
\* metrics of both universes were rejected and the history table has no
\* row for the day
C21_Witness ==
    /\ DailyRun /\ pc = "done"
    /\ len(sp500_data) = 2 /\ len(nasdaq_data) = 2
    /\ metrics.sp = None /\ metrics.nas = None
    /\ LogHas(CROSSOVER_FILE, now.day)
    /\ RowsOn(RowsOf(HISTORY_FILE), now.day) = 0

----------------------------------------------------------------------------
(* detect_crossovers called outside its precondition (SpecCross).          *)

\* 0 <= prev_index < curr_index < row_count(panel)
CrossPrecondition ==
    /\ 0 <= args.prev_date_idx
    /\ args.prev_date_idx < args.curr_date_idx
    /\ args.curr_date_idx < len(price_data)

(* C18: whenever detect_crossovers is called with indices that violate     *)
(* 0 <= prev_index < curr_index < row_count(panel), it returns without     *)
(* raising and both lists of every window are empty.                       *)

C18_PreconditionGuard ==
    (pc = "cross_returned" /\ ~CrossPrecondition) =>
        /\ ~result.raised
        /\ \A w \in Periods : result.value[w] = EmptyLists

\* the row an index stands for (a negative index counts from the end)
RowOf(panel, i) == IF i < 0 THEN len(panel) + i ELSE i

\* the ticker of column c has an event for the window
HasEvent(c, w) ==
    EventCount(result.value[w].bullish, price_data.columns[c])
        + EventCount(result.value[w].bearish, price_data.columns[c]) > 0

(* C24: a ticker has an event for window w only if prev_index has at least *)
(* w rows up to and including it and the ticker has no missing close in    *)
(* the w rows ending at prev_index nor in the w rows ending at curr_index; *)
(* a panel of exactly w rows, called with prev_index = w-2 and             *)
(* curr_index = w-1, has no event for w.                                   *)

C24_WindowNeedsHistory ==
    CrossReturned =>
        \A w \in Periods :
            /\ \A c \in Cols(price_data) :
                  HasEvent(c, w) =>
                      /\ args.prev_date_idx + 1 >= w
                      /\ ValidRow(price_data, args.prev_date_idx)
                      /\ TrailingPresent(price_data, c, args.prev_date_idx, w)
                      /\ ValidRow(price_data, RowOf(price_data, args.curr_date_idx))
                      /\ TrailingPresent(price_data, c,
                                         RowOf(price_data, args.curr_date_idx), w)
            /\ (/\ len(price_data) = w
                 /\ args.prev_date_idx = w - 2
                 /\ args.curr_date_idx = w - 1) => result.value[w] = EmptyLists

\* a panel of exactly 100 rows, called on its last two rows: an event for
\* the window of 50, none for the window of 100
C24_Witness ==
    /\ CrossReturned
    /\ len(price_data) = 100
    /\ args.prev_date_idx = 98 /\ args.curr_date_idx = 99
    /\ \E c \in Cols(price_data) : HasEvent(c, 50)
    /\ result.value[100] = EmptyLists

----------------------------------------------------------------------------
(* The counts of calculate_metrics_for_date, read off the panel            *)
(* (SpecMetrics).                                                          *)

\* the tickers with a close on row i
Priced(panel, i) == {c \in Cols(panel) : panel.data[i + 1][c] # NaN}

\* the tickers with a close on row i, a close on each of the `period` rows
\* up to it, and the close on row i strictly above their mean
AboveSma(panel, i, period) ==
    {c \in Priced(panel, i) : StrictlyAbove(panel, c, i, period)}

(* C20: in every record returned, total is the number of tickers with a    *)
(* close on row date_idx; above_N is the number of those whose N-row       *)
(* window holds no missing close and whose close is strictly above the     *)
(* N-row mean (a ticker with a missing close in the window, or with a      *)
(* close equal to the mean, is in total and not in above_N); and each      *)
(* percentage is above_N over that one total, rounded to two decimals.     *)

C20_SharedDenominator ==
    (pc = "metrics_returned" /\ result # None) =>
        LET i == args.date_idx
            total == Cardinality(Priced(price_data, i))
        IN  /\ result.total = total
            /\ result.above_50 = Cardinality(AboveSma(price_data, i, 50))
            /\ result.above_100 = Cardinality(AboveSma(price_data, i, 100))
            /\ result.above_200 = Cardinality(AboveSma(price_data, i, 200))
            /\ result.pct_above_50 = RoundDiv(result.above_50 * 10000, total)
            /\ result.pct_above_100 = RoundDiv(result.above_100 * 10000, total)
            /\ result.pct_above_200 = RoundDiv(result.above_200 * 10000, total)

\* a record counts two tickers: one is above its 50-row mean and has a
\* missing close inside its 100-row window, the other closes exactly at
\* its 50-row mean
C20_Witness ==
    /\ pc = "metrics_returned"
    /\ result # None
    /\ result.total = 2
    /\ result.above_50 = 1
    /\ result.above_100 = 0
    /\ \E c, e \in Cols(price_data) :
          /\ StrictlyAbove(price_data, c, args.date_idx, 50)
          /\ ~TrailingPresent(price_data, c, args.date_idx, 100)
          /\ EqualToSma(price_data, e, args.date_idx, 50)

====
